---- MODULE Spec2Model ----
(***************************************************************************)
(* A model of go-phash: the 64-bit perceptual hash (phash.go), the resize  *)
(* strategy, the EXIF orientation detector (exifOrientationJPEG) and the    *)
(* orientation corrector (applyEXIFOrientation, rotate.go).                *)
(*                                                                         *)
(* float64 coefficients are modelled as integers: the code only compares   *)
(* and sorts them.  A uint64 is a function from bit number (0 = least      *)
(* significant) to 0..1.  Byte buffers are sequences of 0..255, indexed    *)
(* from 1 (Go index k is element k+1).                                     *)
(***************************************************************************)
EXTENDS Integers, Sequences, FiniteSets, TLC

VARIABLES
    \* PHash pipeline (phash.go)
    phPc, phImg, phStages, coeff, med, hash,
    \* HammingDistance (phash.go)
    hamPc, ha, hb, dist,
    \* Resize
    rsPc, rsSrc, rsDstW, rsDstH, rsTw, rsTh, rsCw, rsCh, rsOut, rsPasses,
    \* exifOrientationJPEG; exIn tells how the payload was built
    \* and intBits is the width of Go's int on the build
    exPc, data, exIn, intBits, exI, exOrient, exOk,
    \* applyEXIFOrientation (rotate.go): the images so far, the
    \* first being the decoded one, and the orientations applied to them
    rotPc, rotImgs, rotCodes,
    \* DownscaleByLargestSide
    dsPc, dsSrc, dsMax, dsNewW, dsNewH, dsOut

hashVars   == <<phPc, phImg, phStages, coeff, med, hash>>
hamVars    == <<hamPc, ha, hb, dist>>
resizeVars == <<rsPc, rsSrc, rsDstW, rsDstH, rsTw, rsTh, rsCw, rsCh, rsOut, rsPasses>>
exifVars   == <<exPc, data, exIn, intBits, exI, exOrient, exOk>>
rotVars    == <<rotPc, rotImgs, rotCodes>>
dsVars     == <<dsPc, dsSrc, dsMax, dsNewW, dsNewH, dsOut>>
vars       == <<hashVars, hamVars, resizeVars, exifVars, rotVars, dsVars>>

\* ------------------------------------------------------------------ bounds

\* Coefficient matrices are drawn from the family
\* c[y][x] = ((a*y + b*x + k) % m) - 1 with the DC cell set apart.
MaxSlope == 2
MaxShift == 1
MaxMod == 4
\* Source sides and resize targets.
MaxSrc == 8
MaxDst == 5
\* Sample hashes have a one bit every p+2 positions, p in 0..MaxPeriod,
\* starting at phase 0..MaxPhase.
MaxPeriod == 3
MaxPhase == 2
\* Padding bytes before the IFD, entries before the orientation entry, and
\* the length of the byte strings enumerated in full.
MaxPad == 1
MaxOtherEntries == 1
MaxShortLen == 4
\* Image sides and the pixel number of the first position.
MaxSide == 3
MaxFirstPixel == 1
\* Sides of the images given to DownscaleByLargestSide, and its maxSide.
MaxOrig == 22
MaxBound == 15

\* ------------------------------------------------------- program constants

\* The coefficient matrix is 8x8 and the hash has 64 bits.
CoeffSide == 8
HashBits == 64
\* PHash resizes to 32x32.
GraySide == 32

\* ------------------------------------------------------------------ Resize

NilImage == [nil |-> TRUE, w |-> 0, h |-> 0]

Image(w, h) == [nil |-> FALSE, w |-> w, h |-> h]

\* uint32(float64(a) * float64(b) / float64(c)): the conversion truncates
\* toward zero; with c = 0 the quotient is +Inf or NaN and the converted
\* value is implementation-dependent (u).
AspectSideRounded(a, b, c, u) == IF c = 0 THEN u ELSE (2 * a * b + c) \div (2 * c)

AspectSide(a, b, c, u) == IF c = 0 THEN u ELSE (a * b) \div c

ResizeTargetEitherEqual(sw, sh, dstW, dstH, u) ==
    IF (dstW = 0 /\ dstH = 0) \/ (dstW = sw \/ dstH = sh)
    THEN [ret |-> "src", w |-> dstW, h |-> dstH]
    ELSE [ret |-> "go", w |-> dstW, h |-> dstH]

\* Lines 27-41 of Resize: the target after the aspect-ratio step, or "src"
\* when the source is returned unchanged.
ResizeTarget(sw, sh, dstW, dstH, u) ==
    IF (dstW = 0 /\ dstH = 0) \/ (dstW = sw /\ dstH = sh)
    THEN [ret |-> "src", w |-> dstW, h |-> dstH]
    ELSE LET w1 == IF dstW = 0 THEN AspectSide(dstH, sw, sh, u) ELSE dstW
             h1 == IF dstH = 0 THEN AspectSide(w1, sh, sw, u) ELSE dstH
         IN IF w1 = 0 \/ h1 = 0
            THEN [ret |-> "src", w |-> w1, h |-> h1]
            ELSE [ret |-> "go", w |-> w1, h |-> h1]

HalveCondEither(cw, ch, dstW, dstH) == cw \div 2 >= dstW \/ ch \div 2 >= dstH

\* The halving loop's condition (line 54).
HalveCond(cw, ch, dstW, dstH) == cw \div 2 >= dstW /\ ch \div 2 >= dstH

\* The size the halving loop ends with.
RECURSIVE HalveAll(_, _, _, _)
HalveAll(cw, ch, dstW, dstH) ==
    IF HalveCond(cw, ch, dstW, dstH)
    THEN HalveAll(cw \div 2, ch \div 2, dstW, dstH)
    ELSE <<cw, ch>>

\* Resize as a whole, for nonzero targets: the returned image.
Resize(src, dstW, dstH) ==
    IF src.nil THEN NilImage
    ELSE LET t == ResizeTarget(src.w, src.h, dstW, dstH, 0)
         IN IF t.ret = "src" THEN src ELSE Image(t.w, t.h)

\* ------------------------------------------------- float64 multiplication

\* A float64 has a significand of 53 bits.  The significand is kept in five
\* limbs of 13 bits under a leading limb, least significant limb first.
LimbBits == 13
Float64Bits == 53

LimbBase == 2 ^ LimbBits

\* float64(m) / float64(l) for 0 < m < l: the significand sig (as limbs) and
\* the number k of binary places such that the quotient is
\* sig * 2^-(k + 52), rounded to the nearest float64, ties to even.
DivFloat64(m, l) ==
    LET k  == CHOOSE j \in 1 .. 16 : m * 2 ^ j >= l /\ m * 2 ^ (j - 1) < l
        r0 == m * 2 ^ k - l
        d1 == (r0 * LimbBase) \div l
        r1 == (r0 * LimbBase) % l
        d2 == (r1 * LimbBase) \div l
        r2 == (r1 * LimbBase) % l
        d3 == (r2 * LimbBase) \div l
        r3 == (r2 * LimbBase) % l
        d4 == (r3 * LimbBase) \div l
        r4 == (r3 * LimbBase) % l
        up == IF 2 * r4 > l \/ (2 * r4 = l /\ d4 % 2 = 1) THEN 1 ELSE 0
        e4 == d4 + up
        e3 == d3 + e4 \div LimbBase
        e2 == d2 + e3 \div LimbBase
        e1 == d1 + e2 \div LimbBase
        e0 == 1 + e1 \div LimbBase
    IN [sig |-> <<e4 % LimbBase, e3 % LimbBase, e2 % LimbBase, e1 % LimbBase, e0>>,
        places |-> k + Float64Bits - 1]

\* The exact product of the integer w and a significand, as limbs.
MulLimbs(w, sig) ==
    LET t1 == w * sig[1]
        t2 == w * sig[2] + t1 \div LimbBase
        t3 == w * sig[3] + t2 \div LimbBase
        t4 == w * sig[4] + t3 \div LimbBase
        t5 == w * sig[5] + t4 \div LimbBase
    IN <<t1 % LimbBase, t2 % LimbBase, t3 % LimbBase, t4 % LimbBase,
         t5 % LimbBase, t5 \div LimbBase>>

\* Bit i of a number held in limbs.
LimbBit(p, i) ==
    IF i \div LimbBits >= Len(p) THEN 0
    ELSE (p[(i \div LimbBits) + 1] \div 2 ^ (i % LimbBits)) % 2

\* The number of bits of a number held in limbs.
BitLen(p) ==
    LET ones == {i \in 0 .. (LimbBits * Len(p) - 1) : LimbBit(p, i) = 1}
    IN IF ones = {} THEN 0 ELSE 1 + CHOOSE i \in ones : \A j \in ones : j <= i

\* math.Round(float64(w) * scale), scale = float64(m) / float64(l), 0 < m < l
\* and 0 < w <= l.  The exact product p * 2^-places is rounded to a float64
\* (53 bits, ties to even) and math.Round rounds that half away from zero: the
\* result is floor + 1 when the half bit of the exact product is set or the
\* float64 nearest to the exact product is floor + 1/2, and floor otherwise.
RoundScaledExact(w, m, l) == (2 * w * m + l) \div (2 * l)

RoundScaled(w, m, l) ==
    LET q     == DivFloat64(m, l)
        p     == MulLimbs(w, q.sig)
        e     == q.places
        nb    == BitLen(p)
        floor == CHOOSE n \in 0 .. w :
                    \A j \in 0 .. 20 : LimbBit(p, e + j) = (n \div 2 ^ j) % 2
        toHalf == /\ nb > Float64Bits
                  /\ \A i \in (nb - Float64Bits - 1) .. (e - 2) : LimbBit(p, i) = 1
    IN IF LimbBit(p, e - 1) = 1 \/ toHalf THEN floor + 1 ELSE floor

\* ------------------------------------------------------------------- PHash

Rows == 0 .. (CoeffSide - 1)

Bit == 0 .. 1

Zero64 == [i \in 0 .. (HashBits - 1) |-> 0]

\* h <<= 1
Shl1(h) == [i \in 0 .. (HashBits - 1) |-> IF i = 0 THEN 0 ELSE h[i - 1]]

\* h |= 1
Or1(h) == [h EXCEPT ![0] = 1]

\* Grayscale: a new image.Gray of the source's size at origin (0,0).
Grayscale(src) == IF src.nil THEN NilImage ELSE Image(src.w, src.h)

\* sort.Float64s: ascending.  Element i of s goes to the place given by
\* the number of elements that come before it in the sorted order.
SortedPlace(s, i) ==
    1 + Cardinality({j \in 1 .. Len(s) : s[j] < s[i] \/ (s[j] = s[i] /\ j < i)})

SortFloat64s(s) ==
    [p \in 1 .. Len(s) |-> s[CHOOSE i \in 1 .. Len(s) : SortedPlace(s, i) = p]]

\* The slice v that medianImageHash fills: rows 1..7 and columns 1..7.
MedianWindow(c) ==
    [i \in 1 .. ((CoeffSide - 1) * (CoeffSide - 1)) |->
        c[1 + ((i - 1) \div (CoeffSide - 1))][1 + ((i - 1) % (CoeffSide - 1))]]

\* A window of the 63 cells other than (0,0), in row-major order.
MedianWindowNoDC(c) ==
    [i \in 1 .. (CoeffSide * CoeffSide - 1) |-> c[i \div CoeffSide][i % CoeffSide]]

medianImageHashNoDC(c) ==
    LET v == MedianWindowNoDC(c)
        sorted == SortFloat64s(v)
    IN sorted[(Len(v) \div 2) + 1]

medianImageHash(c) ==
    LET v == MedianWindow(c)
        sorted == SortFloat64s(v)
    IN sorted[(Len(v) \div 2) + 1]

\* The hash after k cells of the row-major scan.
RECURSIVE HashLoop(_, _, _)
HashLoop(c, m, k) ==
    IF k = 0 THEN Zero64
    ELSE LET prev == Shl1(HashLoop(c, m, k - 1))
             y == (k - 1) \div CoeffSide
             x == (k - 1) % CoeffSide
         IN IF c[y][x] > m THEN Or1(prev) ELSE prev

RECURSIVE HashLoopGe(_, _, _)
HashLoopGe(c, m, k) ==
    IF k = 0 THEN Zero64
    ELSE LET prev == Shl1(HashLoopGe(c, m, k - 1))
             y == (k - 1) \div CoeffSide
             x == (k - 1) % CoeffSide
         IN IF c[y][x] >= m THEN Or1(prev) ELSE prev

hashFromCoeffsGe(c, m) == HashLoopGe(c, m, CoeffSide * CoeffSide)

hashFromCoeffsImageHash(c, m) == HashLoop(c, m, CoeffSide * CoeffSide)

\* a ^ b
Xor64(a, b) == [i \in 0 .. (HashBits - 1) |-> IF a[i] = b[i] THEN 0 ELSE 1]

And64(a, b) == [i \in 0 .. (HashBits - 1) |-> IF a[i] = 1 /\ b[i] = 1 THEN 1 ELSE 0]

\* bits.OnesCount64: the number of one bits among bits 0..k-1.
RECURSIVE OnesBelow(_, _)
OnesBelow(h, k) == IF k = 0 THEN 0 ELSE h[k - 1] + OnesBelow(h, k - 1)

OnesCount64(h) == OnesBelow(h, HashBits)

HammingDistanceAnd(a, b) == OnesCount64(And64(a, b))

HammingDistance(a, b) == OnesCount64(Xor64(a, b))


\* --------------------------------------------------- EXIF orientation: bytes

\* Go's d[k], d[a:b] and the condition under which the slice expression
\* d[a:b] does not panic.
ByteAt(d, k) == d[k + 1]

Slice(d, a, b) == SubSeq(d, a + 1, b)

SliceOk(d, a, b) == 0 <= a /\ a <= b /\ b <= Len(d)

BigEndian16(d, k) == 256 * ByteAt(d, k) + ByteAt(d, k + 1)

LittleEndian16(d, k) == ByteAt(d, k) + 256 * ByteAt(d, k + 1)

OrderUint16BigOnly(order, d, k) == BigEndian16(d, k)

\* order.Uint16(d[k:k+2])
OrderUint16(order, d, k) ==
    IF order = "II" THEN LittleEndian16(d, k) ELSE BigEndian16(d, k)

\* order.Uint32(d[k:k+4]), as its high and low 16-bit halves.
OrderUint32(order, d, k) ==
    IF order = "II"
    THEN [hi |-> LittleEndian16(d, k + 2), lo |-> LittleEndian16(d, k)]
    ELSE [hi |-> BigEndian16(d, k), lo |-> BigEndian16(d, k + 2)]

exifHeader == <<69, 120, 105, 102, 0, 0>>

HasPrefix(d, pre) == Len(d) >= Len(pre) /\ SubSeq(d, 1, Len(pre)) = pre

NotFound == [val |-> 0, ok |-> FALSE, panic |-> FALSE, iters |-> 0]

Panicked == [val |-> 0, ok |-> FALSE, panic |-> TRUE, iters |-> 0]

Found(v) == [val |-> v, ok |-> TRUE, panic |-> FALSE, iters |-> 0]

\* The largest int of a 32-bit build.
MaxInt32 == 2147483647

\* Lines 229-232: ifdOffset := int(order.Uint32(tiff[4:8])) and the test
\* ifdOffset < 0 || ifdOffset+2 > len(tiff).  With a 32-bit int a value of
\* 2^31 or more converts to a negative int, and ifdOffset+2 wraps to a
\* negative number for ifdOffset > MaxInt32-2, which passes the test.
IfdOffsetCheck(u, n, bits) ==
    IF u.hi >= 32768 THEN "reject"
    ELSE LET v == u.hi * 65536 + u.lo
         IN IF v > MaxInt32 - 2
            THEN (IF bits = 32 THEN "wrapped" ELSE "reject")
            ELSE IF v + 2 > n THEN "reject" ELSE "ok"

\* The robustness cap on the entry count (line 236).
IfdEntryCapNone == MaxInt32

IfdEntryCap == 256

\* A result of the entry loop, iters being the number of times the loop body
\* was entered.
After(iters, r) == [r EXCEPT !.iters = iters]

\* F on the value of x.  Go evaluates an expression once where it stands
\* and passes its value on; F sees the value, not the expression.
Call(F(_), x) == CHOOSE r \in {F(v) : v \in {x}} : TRUE

\* Lines 247-265: the body of the entry loop at entry n, whose tag is 0x0112
\* or which is the first entry that does not fit.
IfdEntryAt(tiff, order, entryOffset, n) ==
    IF entryOffset + 12 > Len(tiff) THEN After(n + 1, NotFound)
    ELSE IF ~SliceOk(tiff, entryOffset, entryOffset + 2) THEN After(n + 1, Panicked)
    ELSE IF ~SliceOk(tiff, entryOffset + 2, entryOffset + 8) THEN After(n + 1, Panicked)
    ELSE LET typ == OrderUint16(order, tiff, entryOffset + 2)
             count == OrderUint32(order, tiff, entryOffset + 4)
         IN IF typ # 3 \/ count # [hi |-> 0, lo |-> 1] THEN After(n + 1, NotFound)
            ELSE IF ~SliceOk(tiff, entryOffset + 8, entryOffset + 10)
                 THEN After(n + 1, Panicked)
            ELSE LET value == OrderUint16(order, tiff, entryOffset + 8)
                 IN IF value >= 1 /\ value <= 8 THEN After(n + 1, Found(value))
                    ELSE After(n + 1, NotFound)

\* Lines 241-266: the IFD entry loop from entry n0 on.  The loop passes
\* over the entries that lie inside the buffer and carry another tag
\* (continue); it ends at the first entry that does not fit (break), at the
\* first entry with tag 0x0112 (return), or at the entry count.
IfdEntriesFrom(tiff, order, entriesBase, entryCount, n0) ==
    LET Offset(n) == entriesBase + n * 12
        Ends(n) ==
            IF Offset(n) + 12 > Len(tiff) THEN TRUE
            ELSE IF ~SliceOk(tiff, Offset(n), Offset(n) + 2) THEN TRUE
            ELSE OrderUint16(order, tiff, Offset(n)) = 274
        Loop(ends) ==
            IF ends = {} THEN After(IF n0 > entryCount THEN n0 ELSE entryCount, NotFound)
            ELSE Call(LAMBDA n : IfdEntryAt(tiff, order, Offset(n), n),
                      CHOOSE k \in ends : \A m \in ends : k <= m)
    IN Call(Loop, {n \in n0 .. (entryCount - 1) : Ends(n)})

IfdEntries(tiff, order, entriesBase, entryCount, n0) ==
    Call(LAMBDA a : IfdEntriesFrom(a[1], a[2], a[3], a[4], n0),
         <<tiff, order, entriesBase, entryCount>>)

\* parseExifOrientation.
parseExifOrientation(tiff, bits) ==
    IF Len(tiff) < 8 THEN NotFound
    ELSE Call(LAMBDA order :
         IF order = "none" THEN NotFound
         ELSE IF OrderUint16(order, tiff, 2) # 42 THEN NotFound
         ELSE Call(LAMBDA u :
              LET chk == IfdOffsetCheck(u, Len(tiff), bits)
              IN IF chk = "reject" THEN NotFound
                 ELSE IF chk = "wrapped" THEN Panicked
                 ELSE Call(LAMBDA ifdOffset :
                      IF ~SliceOk(tiff, ifdOffset, ifdOffset + 2) THEN Panicked
                      ELSE Call(LAMBDA entryCount :
                           IF entryCount < 0 \/ entryCount > IfdEntryCap THEN NotFound
                           ELSE IfdEntries(tiff, order, ifdOffset + 2, entryCount, 0),
                           OrderUint16(order, tiff, ifdOffset)),
                      u.hi * 65536 + u.lo),
              OrderUint32(order, tiff, 4)),
         IF ByteAt(tiff, 0) = 73 /\ ByteAt(tiff, 1) = 73 THEN "II"
         ELSE IF ByteAt(tiff, 0) = 77 /\ ByteAt(tiff, 1) = 77 THEN "MM"
         ELSE "none")

\* Line 147: len(data) < 4 || data[0] != 0xFF || data[1] != 0xD8.
NoSOI(d) ==
    IF Len(d) < 4 THEN TRUE
    ELSE IF ByteAt(d, 0) # 255 THEN TRUE
    ELSE ByteAt(d, 1) # 216

IsStopMarkerEoiOnly(marker) == marker = 217

\* Lines 165-168: EOI (0xD9) or SOS (0xDA).
IsStopMarker(marker) == marker = 217 \/ marker = 218

\* One iteration of the marker scan (lines 152-200) at index i, where
\* i+4 <= len(data): what the iteration does and the index it leaves.
ScanStep(d, i, bits) ==
    IF ByteAt(d, i) # 255 THEN [kind |-> "skip", i |-> i + 1, res |-> NotFound]
    ELSE IF i + 1 >= Len(d) THEN [kind |-> "return", i |-> i, res |-> NotFound]
    ELSE LET marker == ByteAt(d, i + 1)
             j == i + 2
         IN IF IsStopMarker(marker)
            THEN [kind |-> "stop", i |-> j, res |-> NotFound]
            ELSE IF marker = 1 \/ (marker >= 208 /\ marker <= 215)
            THEN [kind |-> "standalone", i |-> j, res |-> NotFound]
            ELSE IF j + 2 > Len(d) THEN [kind |-> "break", i |-> j, res |-> NotFound]
            ELSE IF ~SliceOk(d, j, j + 2) THEN [kind |-> "panic", i |-> j, res |-> Panicked]
            ELSE LET segLen == BigEndian16(d, j)
                     segEnd == j + segLen
                 IN IF segLen < 2 THEN [kind |-> "break", i |-> j, res |-> NotFound]
                    ELSE IF segEnd > Len(d) THEN [kind |-> "break", i |-> j, res |-> NotFound]
                    ELSE IF marker = 225 /\ segLen >= 8
                    THEN IF ~SliceOk(d, j + 2, segEnd)
                         THEN [kind |-> "panic", i |-> j, res |-> Panicked]
                         ELSE LET segment == Slice(d, j + 2, segEnd)
                              IN IF Len(segment) >= 6 /\ HasPrefix(segment, exifHeader)
                                 THEN LET r == Call(LAMBDA tiff : parseExifOrientation(tiff, bits),
                                                    Slice(segment, 6, Len(segment)))
                                      IN IF r.panic THEN [kind |-> "panic", i |-> j, res |-> r]
                                         ELSE IF r.ok THEN [kind |-> "found", i |-> j, res |-> r]
                                         ELSE [kind |-> "segment", i |-> segEnd, res |-> NotFound]
                                 ELSE [kind |-> "segment", i |-> segEnd, res |-> NotFound]
                    ELSE [kind |-> "segment", i |-> segEnd, res |-> NotFound]


\* ------------------------------------------------- the PHash pipeline steps

ZeroCoeff == [y \in Rows |-> [x \in Rows |-> 0]]

\* The DC values and the image sizes the pipeline is run on.
DcValues == {-2, 0, 5}

PhSizes ==
    {<<1, 1>>, <<32, 32>>, <<8, 3>>, <<40, 64>>, <<100, 33>>, <<32, 7>>, <<64, 7>>}

PhImages == {NilImage} \cup {Image(s[1], s[2]) : s \in PhSizes}

CoeffOf(a, b, k, m, dc) ==
    [y \in Rows |-> [x \in Rows |->
        IF y = 0 /\ x = 0 THEN dc ELSE ((a * y + b * x + k) % m) - 1]]

CoeffInputs ==
    {CoeffOf(a, b, k, m, dc) :
        a \in 0 .. MaxSlope, b \in 0 .. MaxSlope, k \in 0 .. MaxShift,
        m \in 2 .. MaxMod, dc \in DcValues}

HashIdle ==
    /\ phPc = "idle"
    /\ phImg = NilImage
    /\ phStages = <<>>
    /\ coeff = ZeroCoeff
    /\ med = 0
    /\ hash = Zero64

HashInit ==
    /\ phPc = "call"
    /\ phImg \in PhImages
    /\ phStages = <<>>
    /\ coeff = ZeroCoeff
    /\ med = 0
    /\ hash = Zero64

PHashNilHashed ==
    /\ phPc = "call"
    /\ phImg.nil
    /\ phImg' = Grayscale(phImg)
    /\ phStages' = Append(phStages, [stage |-> "Grayscale", w |-> phImg.w, h |-> phImg.h])
    /\ phPc' = "gray"
    /\ UNCHANGED <<coeff, med, hash, hamVars, resizeVars, exifVars, rotVars, dsVars>>

\* PHash lines 19-21: a nil image returns 0.
PHashNil ==
    /\ phPc = "call"
    /\ phImg.nil
    /\ phPc' = "done"
    /\ hash' = Zero64
    /\ UNCHANGED <<phImg, phStages, coeff, med, hamVars, resizeVars, exifVars, rotVars, dsVars>>

\* PHash line 22: gray := Grayscale(image).
PHashGrayscale ==
    /\ phPc = "call"
    /\ ~phImg.nil
    /\ phImg' = Grayscale(phImg)
    /\ phStages' = Append(phStages, [stage |-> "Grayscale", w |-> phImg.w, h |-> phImg.h])
    /\ phPc' = "gray"
    /\ UNCHANGED <<coeff, med, hash, hamVars, resizeVars, exifVars, rotVars, dsVars>>

\* PHash line 23: resized := Resize(gray, 32, 32).
PHashResize ==
    /\ phPc = "gray"
    /\ phImg' = Resize(phImg, GraySide, GraySide)
    /\ phStages' = Append(phStages, [stage |-> "Resize", w |-> phImg.w, h |-> phImg.h])
    /\ phPc' = "resized"
    /\ UNCHANGED <<coeff, med, hash, hamVars, resizeVars, exifVars, rotVars, dsVars>>

\* PHash line 24: pix := gray32x32(resized).
PHashGray32 ==
    /\ phPc = "resized"
    /\ phStages' = Append(phStages, [stage |-> "gray32x32", w |-> phImg.w, h |-> phImg.h])
    /\ phPc' = "pix"
    /\ UNCHANGED <<phImg, coeff, med, hash, hamVars, resizeVars, exifVars, rotVars, dsVars>>

\* PHash line 25: coeff := dctTopLeft8x8(pix).  The pixel values and the
\* floating-point sums are not modelled: the result is any matrix of the
\* input family.
PHashDct ==
    /\ phPc = "pix"
    /\ coeff' \in CoeffInputs
    /\ phStages' = Append(phStages, [stage |-> "dctTopLeft8x8", w |-> GraySide, h |-> GraySide])
    /\ phPc' = "coeff"
    /\ UNCHANGED <<phImg, med, hash, hamVars, resizeVars, exifVars, rotVars, dsVars>>

\* PHash line 26: med := medianImageHash(coeff).
PHashMedian ==
    /\ phPc = "coeff"
    /\ med' = medianImageHash(coeff)
    /\ phStages' = Append(phStages, [stage |-> "medianImageHash", w |-> CoeffSide, h |-> CoeffSide])
    /\ phPc' = "med"
    /\ UNCHANGED <<phImg, coeff, hash, hamVars, resizeVars, exifVars, rotVars, dsVars>>

\* PHash line 27: return hashFromCoeffsImageHash(coeff, med).
PHashBits ==
    /\ phPc = "med"
    /\ hash' = hashFromCoeffsImageHash(coeff, med)
    /\ phStages' = Append(phStages, [stage |-> "hashFromCoeffsImageHash", w |-> CoeffSide, h |-> CoeffSide])
    /\ phPc' = "done"
    /\ UNCHANGED <<phImg, coeff, med, hamVars, resizeVars, exifVars, rotVars, dsVars>>

\* ------------------------------------------------------ HammingDistance

SampleHash(p, s) ==
    [i \in 0 .. (HashBits - 1) |-> IF ((i + s) % (p + 2)) = 0 THEN 1 ELSE 0]

HashSamples ==
    {Zero64, [i \in 0 .. (HashBits - 1) |-> 1]}
        \cup {SampleHash(p, s) : p \in 0 .. MaxPeriod, s \in 0 .. MaxPhase}

HamIdle ==
    /\ hamPc = "idle"
    /\ ha = Zero64
    /\ hb = Zero64
    /\ dist = 0

HamInit ==
    /\ hamPc = "call"
    /\ ha \in HashSamples
    /\ hb \in HashSamples
    /\ dist = 0

HammingCall ==
    /\ hamPc = "call"
    /\ dist' = HammingDistance(ha, hb)
    /\ hamPc' = "done"
    /\ UNCHANGED <<ha, hb, hashVars, resizeVars, exifVars, rotVars, dsVars>>

\* ------------------------------------------------------------ Resize steps

NoOut == [kind |-> "none", w |-> 0, h |-> 0]

\* What uint32(+Inf) or uint32(NaN) may give.
ImplDependentU32 == 0 .. MaxDst

\* The aspect-ratio step divides by a zero source side.
DividesByZero ==
    \/ rsDstW = 0 /\ rsDstH # 0 /\ rsSrc.h = 0
    \/ rsDstH = 0 /\ rsDstW # 0 /\ rsSrc.w = 0

ConvChoices == IF DividesByZero THEN ImplDependentU32 ELSE {0}

ResizeIdle ==
    /\ rsPc = "idle"
    /\ rsSrc = NilImage
    /\ rsDstW = 0
    /\ rsDstH = 0
    /\ rsTw = 0
    /\ rsTh = 0
    /\ rsCw = 0
    /\ rsCh = 0
    /\ rsOut = NoOut
    /\ rsPasses = <<>>

ResizeInit ==
    /\ rsPc = "call"
    /\ rsSrc \in PhImages \cup {Image(w, h) : w \in 0 .. MaxSrc, h \in 0 .. MaxSrc}
    /\ rsDstW \in (0 .. MaxDst) \cup {GraySide}
    /\ rsDstH \in (0 .. MaxDst) \cup {GraySide}
    /\ rsTw = rsDstW
    /\ rsTh = rsDstH
    /\ rsCw = 0
    /\ rsCh = 0
    /\ rsOut = NoOut
    /\ rsPasses = <<>>

\* Lines 18-20.
ResizeNil ==
    /\ rsPc = "call"
    /\ rsSrc.nil
    /\ rsOut' = [kind |-> "nil", w |-> 0, h |-> 0]
    /\ rsPc' = "done"
    /\ UNCHANGED <<rsSrc, rsDstW, rsDstH, rsTw, rsTh, rsCw, rsCh, rsPasses, hashVars, hamVars, exifVars, rotVars, dsVars>>

\* Lines 27-41: the source is returned as it is.
ResizeReturnSrc ==
    /\ rsPc = "call"
    /\ ~rsSrc.nil
    /\ \E u \in ConvChoices :
        LET t == ResizeTarget(rsSrc.w, rsSrc.h, rsDstW, rsDstH, u)
        IN /\ t.ret = "src"
           /\ rsTw' = t.w
           /\ rsTh' = t.h
    /\ rsOut' = [kind |-> "src", w |-> rsSrc.w, h |-> rsSrc.h]
    /\ rsPc' = "done"
    /\ UNCHANGED <<rsSrc, rsDstW, rsDstH, rsCw, rsCh, rsPasses, hashVars, hamVars, exifVars, rotVars, dsVars>>

\* Lines 44-48: one ApproxBiLinear pass to the target.
ResizeUpscale ==
    /\ rsPc = "call"
    /\ ~rsSrc.nil
    /\ \E u \in ConvChoices :
        LET t == ResizeTarget(rsSrc.w, rsSrc.h, rsDstW, rsDstH, u)
        IN /\ t.ret = "go"
           /\ t.w >= rsSrc.w /\ t.h >= rsSrc.h
           /\ rsTw' = t.w
           /\ rsTh' = t.h
           /\ rsOut' = [kind |-> "new", w |-> t.w, h |-> t.h]
           /\ rsPasses' = <<[filter |-> "ApproxBiLinear", w |-> t.w, h |-> t.h]>>
    /\ rsPc' = "done"
    /\ UNCHANGED <<rsSrc, rsDstW, rsDstH, rsCw, rsCh, hashVars, hamVars, exifVars, rotVars, dsVars>>

\* Lines 51-52: the downscale path starts at the source size.
ResizeDownscale ==
    /\ rsPc = "call"
    /\ ~rsSrc.nil
    /\ \E u \in ConvChoices :
        LET t == ResizeTarget(rsSrc.w, rsSrc.h, rsDstW, rsDstH, u)
        IN /\ t.ret = "go"
           /\ ~(t.w >= rsSrc.w /\ t.h >= rsSrc.h)
           /\ rsTw' = t.w
           /\ rsTh' = t.h
    /\ rsCw' = rsSrc.w
    /\ rsCh' = rsSrc.h
    /\ rsPc' = "loop"
    /\ UNCHANGED <<rsSrc, rsDstW, rsDstH, rsOut, rsPasses, hashVars, hamVars, exifVars, rotVars, dsVars>>

\* Lines 54-60: one halving pass.
ResizeHalve ==
    /\ rsPc = "loop"
    /\ HalveCond(rsCw, rsCh, rsTw, rsTh)
    /\ rsCw' = rsCw \div 2
    /\ rsCh' = rsCh \div 2
    /\ rsPasses' = Append(rsPasses, [filter |-> "CatmullRom", w |-> rsCw \div 2, h |-> rsCh \div 2])
    /\ UNCHANGED <<rsPc, rsSrc, rsDstW, rsDstH, rsTw, rsTh, rsOut, hashVars, hamVars, exifVars, rotVars, dsVars>>

\* Lines 62-64: the final pass to the exact target.
ResizeFinal ==
    /\ rsPc = "loop"
    /\ ~HalveCond(rsCw, rsCh, rsTw, rsTh)
    /\ rsPasses' = Append(rsPasses, [filter |-> "CatmullRom", w |-> rsTw, h |-> rsTh])
    /\ rsOut' = [kind |-> "new", w |-> rsTw, h |-> rsTh]
    /\ rsPc' = "done"
    /\ UNCHANGED <<rsSrc, rsDstW, rsDstH, rsTw, rsTh, rsCw, rsCh, hashVars, hamVars, exifVars, rotVars, dsVars>>

\* ------------------------------------------------ DownscaleByLargestSide

DsIdle ==
    /\ dsPc = "idle"
    /\ dsSrc = NilImage
    /\ dsMax = 0
    /\ dsNewW = 0
    /\ dsNewH = 0
    /\ dsOut = NoOut

DsInit ==
    /\ dsPc = "call"
    /\ dsSrc \in {NilImage} \cup {Image(w, h) : w \in 0 .. MaxOrig, h \in 0 .. MaxOrig}
    /\ dsMax \in 0 .. MaxBound
    /\ dsNewW = 0
    /\ dsNewH = 0
    /\ dsOut = NoOut

\* largest := origW; if origH > largest { largest = origH }
Largest(src) == IF src.h > src.w THEN src.h ELSE src.w

\* Lines 71-87: nothing to do.
DownscaleKeeps(src, maxSide) ==
    IF src.nil \/ maxSide = 0 THEN TRUE
    ELSE IF src.w = 0 \/ src.h = 0 THEN TRUE
    ELSE Largest(src) <= maxSide

\* Lines 89-97: uint32(math.Round(float64(orig) * scale)), 0 replaced by 1.
NewSideFloor(orig, maxSide, largest) ==
    LET n == (orig * maxSide) \div largest
    IN IF n = 0 THEN 1 ELSE n

NewSide(orig, maxSide, largest) ==
    LET n == RoundScaled(orig, maxSide, largest)
    IN IF n = 0 THEN 1 ELSE n

\* Lines 71-87: src is returned.
DownscaleReturnSrc ==
    /\ dsPc = "call"
    /\ DownscaleKeeps(dsSrc, dsMax)
    /\ dsOut' = [kind |-> IF dsSrc.nil THEN "nil" ELSE "src", w |-> dsSrc.w, h |-> dsSrc.h]
    /\ dsPc' = "done"
    /\ UNCHANGED <<dsSrc, dsMax, dsNewW, dsNewH, hashVars, hamVars, resizeVars, exifVars, rotVars>>

\* Lines 89-99: return Resize(src, newW, newH).
DownscaleResize ==
    /\ dsPc = "call"
    /\ ~DownscaleKeeps(dsSrc, dsMax)
    /\ LET newW == NewSide(dsSrc.w, dsMax, Largest(dsSrc))
           newH == NewSide(dsSrc.h, dsMax, Largest(dsSrc))
           r    == Resize(dsSrc, newW, newH)
       IN /\ dsNewW' = newW
          /\ dsNewH' = newH
          /\ dsOut' = [kind |-> IF r = dsSrc THEN "src" ELSE "new", w |-> r.w, h |-> r.h]
    /\ dsPc' = "done"
    /\ UNCHANGED <<dsSrc, dsMax, hashVars, hamVars, resizeVars, exifVars, rotVars>>

\* ------------------------------------------------------- EXIF: the payloads

Enc16(order, v) ==
    IF order = "II" THEN <<v % 256, v \div 256>> ELSE <<v \div 256, v % 256>>

Enc32(order, hi, lo) ==
    IF order = "II" THEN Enc16(order, lo) \o Enc16(order, hi)
    ELSE Enc16(order, hi) \o Enc16(order, lo)

Zeros(n) == [i \in 1 .. n |-> 0]

SOI == <<255, 216>>

Orders == {"II", "MM"}

\* The fields of an APP1 Exif segment with one orientation entry after
\* nBefore entries of another tag (0x010F), pad bytes before the IFD.
BaseFields(order) ==
    [mark |-> IF order = "II" THEN <<73, 73>> ELSE <<77, 77>>,
     order |-> order, magic |-> 42, offHi |-> 0, offLo |-> 8, pad |-> 0,
     nBefore |-> 0, count |-> 1, tag |-> 274, typ |-> 3,
     cntHi |-> 0, cntLo |-> 1, val |-> 6]

IfdEntry(order, tag, typ, cntHi, cntLo, val) ==
    Enc16(order, tag) \o Enc16(order, typ) \o Enc32(order, cntHi, cntLo)
        \o Enc16(order, val) \o <<0, 0>>

\* n entries of another tag (0x010F).
OtherEntries(order, n) ==
    LET entry == IfdEntry(order, 271, 2, 0, 4, 0)
    IN [i \in 1 .. (12 * n) |-> entry[((i - 1) % 12) + 1]]

TiffOf(f) ==
    f.mark \o Enc16(f.order, f.magic) \o Enc32(f.order, f.offHi, f.offLo)
        \o Zeros(f.pad) \o Enc16(f.order, f.count)
        \o OtherEntries(f.order, f.nBefore)
        \o IfdEntry(f.order, f.tag, f.typ, f.cntHi, f.cntLo, f.val)

App1Of(f) ==
    LET tiff == TiffOf(f)
    IN <<255, 225>> \o Enc16("MM", 2 + 6 + Len(tiff)) \o exifHeader \o tiff

\* Well-formed things before the APP1 segment: nothing, RST0, TEM, RST7, an
\* APP0 segment, a DQT segment, and two in a row.
GoodPrefixes ==
    {<<>>, <<255, 208>>, <<255, 1>>, <<255, 215>>, <<255, 224, 0, 4, 7, 9>>,
     <<255, 219, 0, 2>>, <<255, 208, 255, 224, 0, 3, 255>>,
     <<255, 224, 0, 4, 255, 225, 255, 254, 0, 2>>}

\* A start-of-scan or end-of-image marker before the APP1 segment.
StopPrefixes == {<<255, 218>>, <<255, 217>>, <<255, 224, 0, 2, 255, 218, 0, 2>>}

\* The number of bytes of a prefix up to the end of its SOS or EOI marker.
StopEnd(pre) ==
    CHOOSE k \in 2 .. Len(pre) :
        /\ pre[k - 1] = 255 /\ pre[k] \in {217, 218}
        /\ \A j \in 2 .. (k - 1) : ~(pre[j - 1] = 255 /\ pre[j] \in {217, 218})

\* Padding bytes and fill bytes before the APP1 segment.
PadPrefixes == {<<0>>, <<7, 0>>}

ValidFields ==
    {[BaseFields(order) EXCEPT !.val = v, !.pad = pad, !.offLo = 8 + pad,
                               !.nBefore = nb, !.count = nb + 1 + extra] :
        order \in Orders, v \in 1 .. 8, pad \in 0 .. MaxPad,
        nb \in 0 .. MaxOtherEntries, extra \in {0, 255 - MaxOtherEntries}}

FaultyFields ==
    UNION {LET b == BaseFields(order)
           IN {[b EXCEPT !.magic = 43], [b EXCEPT !.magic = 10752],
               [b EXCEPT !.mark = <<73, 77>>], [b EXCEPT !.mark = <<0, 0>>],
               [b EXCEPT !.offHi = 32767, !.offLo = 65535],
               [b EXCEPT !.offHi = 32767, !.offLo = 65534],
               [b EXCEPT !.offHi = 32767, !.offLo = 65533],
               [b EXCEPT !.offHi = 32768, !.offLo = 0],
               [b EXCEPT !.offHi = 65535, !.offLo = 65535],
               [b EXCEPT !.offHi = 1, !.offLo = 8],
               [b EXCEPT !.offLo = 21], [b EXCEPT !.offLo = 20],
               [b EXCEPT !.offLo = 19], [b EXCEPT !.offLo = 0],
               [b EXCEPT !.count = 0], [b EXCEPT !.count = 257],
               [b EXCEPT !.count = 256, !.tag = 271],
               [b EXCEPT !.nBefore = 1], [b EXCEPT !.tag = 4609],
               [b EXCEPT !.typ = 4], [b EXCEPT !.typ = 768],
               [b EXCEPT !.cntLo = 2], [b EXCEPT !.cntHi = 1],
               [b EXCEPT !.val = 0], [b EXCEPT !.val = 9],
               [b EXCEPT !.val = 1536], [b EXCEPT !.val = 262]} :
           order \in Orders}

\* IFDs filled up to the cap on the entry count and beyond it: the
\* orientation entry is the last entry within the count, the first one
\* beyond it, or behind a count above the cap.
ManyFields ==
    {[BaseFields(order) EXCEPT !.nBefore = 255 + d[1],
                               !.count = 256 + d[2]] :
        order \in Orders, d \in {<<0, 0>>, <<1, 0>>, <<1, 1>>}}

\* The bytes written over one position of a valid payload, and the bytes of
\* the strings enumerated in full.
CorruptBytes == {0, 255, 218}

ShortAlphabet == {255, 216, 225, 0}

RECURSIVE Strings(_, _)
Strings(alphabet, n) ==
    IF n = 0 THEN {<<>>}
    ELSE LET shorter == Strings(alphabet, n - 1)
         IN shorter \cup {Append(t, b) : t \in {u \in shorter : Len(u) = n - 1}, b \in alphabet}

BasePayloads ==
    {SOI \o pre \o App1Of(BaseFields(order)) :
        order \in Orders, pre \in {<<>>, <<255, 224, 0, 4, 7, 9>>}}

\* stop is the index after the start-of-scan or end-of-image marker that
\* the payload was given before its APP1 segment, 0 without one.
Input(fam, v, bytes) == [fam |-> fam, v |-> v, bytes |-> bytes, stop |-> 0]

ExifInputs ==
    {Input("valid", f.val, SOI \o pre \o App1Of(f)) : f \in ValidFields, pre \in GoodPrefixes}
    \cup {[Input("afterstop", f.val, SOI \o pre \o App1Of(f)) EXCEPT !.stop = 2 + StopEnd(pre)] :
            f \in {g \in ValidFields : g.pad = 0 /\ g.nBefore = 0}, pre \in StopPrefixes}
    \cup {Input("padded", f.val, SOI \o pre \o App1Of(f)) :
            f \in {g \in ValidFields : g.pad = 0 /\ g.nBefore = 0}, pre \in PadPrefixes}
    \cup {Input("faulty", 0, SOI \o App1Of(f)) : f \in FaultyFields}
    \cup {Input("many", f.val, SOI \o <<255, 224, 0, 2>> \o App1Of(f)) : f \in ManyFields}
    \cup UNION {{Input("truncated", 0, Slice(p, 0, n)) : n \in 0 .. (Len(p) - 1)} :
                    p \in BasePayloads}
    \cup UNION {{Input("corrupt", 0, [p EXCEPT ![k] = b]) :
                    k \in 1 .. Len(p), b \in CorruptBytes} : p \in BasePayloads}
    \cup {Input("short", 0, t) : t \in Strings(ShortAlphabet, MaxShortLen)}
    \cup {Input("short", 0, SOI \o t) : t \in Strings(ShortAlphabet, MaxShortLen)}

\* ------------------------------------------- exifOrientationJPEG, by steps

ExifIdle ==
    /\ exPc = "idle"
    /\ data = <<>>
    /\ exIn = [fam |-> "none", v |-> 0, stop |-> 0]
    /\ intBits = 64
    /\ exI = 0
    /\ exOrient = 0
    /\ exOk = FALSE

ExifInit ==
    /\ exPc = "call"
    /\ \E in \in ExifInputs :
        /\ data = in.bytes
        /\ exIn = [fam |-> in.fam, v |-> in.v, stop |-> in.stop]
    /\ intBits \in {32, 64}
    /\ exI = 0
    /\ exOrient = 0
    /\ exOk = FALSE

ExifReturn(r) ==
    /\ exOrient' = r.val
    /\ exOk' = r.ok
    /\ exPc' = IF r.panic THEN "panic" ELSE "done"

\* Lines 147-149: fewer than 4 bytes, or no SOI marker.
ExifRejectHeader ==
    /\ exPc = "call"
    /\ NoSOI(data)
    /\ ExifReturn(NotFound)
    /\ UNCHANGED <<data, exIn, intBits, exI, hashVars, hamVars, resizeVars, rotVars, dsVars>>

\* Line 152: the scan starts at index 2.
ExifStartScan ==
    /\ exPc = "call"
    /\ ~NoSOI(data)
    /\ exI' = 2
    /\ exPc' = "scan"
    /\ UNCHANGED <<data, exIn, intBits, exOrient, exOk, hashVars, hamVars, resizeVars, rotVars, dsVars>>

\* Line 152: the loop ends when fewer than 4 bytes are left.
ExifScanEnd ==
    /\ exPc = "scan"
    /\ ~(exI + 4 <= Len(data))
    /\ ExifReturn(NotFound)
    /\ UNCHANGED <<data, exIn, intBits, exI, hashVars, hamVars, resizeVars, rotVars, dsVars>>

\* Lines 154-157: a byte that is not 0xFF is skipped.
ExifSkipByte ==
    /\ exPc = "scan"
    /\ exI + 4 <= Len(data)
    /\ LET st == ScanStep(data, exI, intBits)
       IN /\ st.kind = "skip"
          /\ exI' = st.i
    /\ UNCHANGED <<exPc, data, exIn, intBits, exOrient, exOk, hashVars, hamVars, resizeVars, rotVars, dsVars>>

\* Lines 165-168 (and the breaks and the return of lines 158-186): the scan
\* stops without an orientation.
ExifStop ==
    /\ exPc = "scan"
    /\ exI + 4 <= Len(data)
    /\ LET st == ScanStep(data, exI, intBits)
       IN /\ st.kind \in {"stop", "break", "return"}
          /\ exI' = st.i
          /\ ExifReturn(st.res)
    /\ UNCHANGED <<data, exIn, intBits, hashVars, hamVars, resizeVars, rotVars, dsVars>>

\* Lines 170-173: a standalone marker is two bytes long.
ExifStandalone ==
    /\ exPc = "scan"
    /\ exI + 4 <= Len(data)
    /\ LET st == ScanStep(data, exI, intBits)
       IN /\ st.kind = "standalone"
          /\ exI' = st.i
    /\ UNCHANGED <<exPc, data, exIn, intBits, exOrient, exOk, hashVars, hamVars, resizeVars, rotVars, dsVars>>

\* Lines 179-199: a segment without an orientation is skipped to its end.
ExifNextSegment ==
    /\ exPc = "scan"
    /\ exI + 4 <= Len(data)
    /\ LET st == ScanStep(data, exI, intBits)
       IN /\ st.kind = "segment"
          /\ exI' = st.i
    /\ UNCHANGED <<exPc, data, exIn, intBits, exOrient, exOk, hashVars, hamVars, resizeVars, rotVars, dsVars>>

\* Lines 189-196: the APP1 segment holds an orientation.
ExifFound ==
    /\ exPc = "scan"
    /\ exI + 4 <= Len(data)
    /\ LET st == ScanStep(data, exI, intBits)
       IN /\ st.kind = "found"
          /\ exI' = st.i
          /\ ExifReturn(st.res)
    /\ UNCHANGED <<data, exIn, intBits, hashVars, hamVars, resizeVars, rotVars, dsVars>>

\* A slice expression out of range: the call panics.
ExifPanic ==
    /\ exPc = "scan"
    /\ exI + 4 <= Len(data)
    /\ LET st == ScanStep(data, exI, intBits)
       IN /\ st.kind = "panic"
          /\ exI' = st.i
          /\ ExifReturn(st.res)
    /\ UNCHANGED <<data, exIn, intBits, hashVars, hamVars, resizeVars, rotVars, dsVars>>


\* ------------------------------------------------------ images and colours

\* An image: its kind (*image.RGBA, *image.NRGBA or *image.Gray), its bounds
\* (x0, y0) .. (x0+w, y0+h), Stride and Pix.  bad is set by an index outside
\* Pix (a panic in Go).
Bpp(kind) == IF kind = "Gray" THEN 1 ELSE 4

PixOffset(img, x, y) == (y - img.y0) * img.stride + (x - img.x0) * Bpp(img.kind)

InRect(img, x, y) ==
    /\ img.x0 <= x /\ x < img.x0 + img.w
    /\ img.y0 <= y /\ y < img.y0 + img.h

RGBAColor(r, g, b, a) == [model |-> "RGBA", r |-> r, g |-> g, b |-> b, a |-> a]

NRGBAColor(r, g, b, a) == [model |-> "NRGBA", r |-> r, g |-> g, b |-> b, a |-> a]

GrayColor(y) == [model |-> "Gray", r |-> y, g |-> y, b |-> y, a |-> 255]

\* The colour stored at byte offset o of Pix.
ColorAtOffset(img, o) ==
    IF img.kind = "Gray" THEN GrayColor(img.pix[o + 1])
    ELSE IF img.kind = "NRGBA"
    THEN NRGBAColor(img.pix[o + 1], img.pix[o + 2], img.pix[o + 3], img.pix[o + 4])
    ELSE RGBAColor(img.pix[o + 1], img.pix[o + 2], img.pix[o + 3], img.pix[o + 4])

ZeroColor(kind) ==
    IF kind = "Gray" THEN [model |-> "Gray", r |-> 0, g |-> 0, b |-> 0, a |-> 255]
    ELSE IF kind = "NRGBA" THEN NRGBAColor(0, 0, 0, 0)
    ELSE RGBAColor(0, 0, 0, 0)

\* img.At(x, y)
At(img, x, y) ==
    IF ~InRect(img, x, y) THEN ZeroColor(img.kind)
    ELSE ColorAtOffset(img, PixOffset(img, x, y))

\* c.RGBA(): the alpha-premultiplied 16-bit channels.
Color16(c) ==
    IF c.model = "NRGBA"
    THEN <<(c.r * 257 * c.a) \div 255, (c.g * 257 * c.a) \div 255,
           (c.b * 257 * c.a) \div 255, c.a * 257>>
    ELSE IF c.model = "Gray" THEN <<c.r * 257, c.r * 257, c.r * 257, 65535>>
    ELSE <<c.r * 257, c.g * 257, c.b * 257, c.a * 257>>

\* color.RGBAModel.Convert(c)
RGBAModelConvert(c) ==
    IF c.model = "RGBA" THEN c
    ELSE LET v == Color16(c)
         IN RGBAColor(v[1] \div 256, v[2] \div 256, v[3] \div 256, v[4] \div 256)

\* image.NewRGBA(image.Rect(0, 0, w, h))
NewRGBA(w, h) ==
    [kind |-> "RGBA", x0 |-> 0, y0 |-> 0, w |-> w, h |-> h, stride |-> 4 * w,
     pix |-> [i \in 1 .. (4 * w * h) |-> 0], bad |-> FALSE]

\* dst.Pix[o], ..., dst.Pix[o+3] = c.R, c.G, c.B, c.A
WritePix(dst, o, c) ==
    IF o < 0 \/ o + 4 > Len(dst.pix) THEN [dst EXCEPT !.bad = TRUE]
    ELSE [dst EXCEPT !.pix = [@ EXCEPT ![o + 1] = c.r, ![o + 2] = c.g,
                                       ![o + 3] = c.b, ![o + 4] = c.a]]

\* dst.Set(x, y, c)
Set(dst, x, y, c) ==
    IF ~InRect(dst, x, y) THEN dst
    ELSE WritePix(dst, PixOffset(dst, x, y), RGBAModelConvert(c))

\* -------------------------------------------------- orientation transforms

Transforms ==
    {"flipHorizontal", "flipVertical", "rotate180", "rotate90", "rotate270",
     "transpose", "transverse"}

FastTransforms == {"flipHorizontal", "flipVertical", "rotate180", "rotate90", "rotate270"}

\* The destination of a transform of a w x h image: h x w for the rotations
\* by 90 and 270, transpose and transverse.
NewDst(t, w, h) ==
    IF t \in {"rotate90", "rotate270", "transpose", "transverse"}
    THEN NewRGBA(h, w) ELSE NewRGBA(w, h)

\* The generic loops: in iteration (x, y), the source position read (from
\* the bounds' origin) and the destination position set.
GenericSrc(t, x, y, w, h) ==
    CASE t = "flipHorizontal" -> <<w - 1 - x, y>>
      [] t = "flipVertical" -> <<x, h - 1 - y>>
      [] t = "rotate180" -> <<w - 1 - x, h - 1 - y>>
      [] OTHER -> <<x, y>>

GenericDstSwapped(t, x, y, w, h) ==
    CASE t = "rotate90" -> <<y, w - 1 - x>>
      [] t = "rotate270" -> <<h - 1 - y, x>>
      [] t = "transpose" -> <<h - 1 - y, w - 1 - x>>
      [] t = "transverse" -> <<y, x>>
      [] OTHER -> <<x, y>>

GenericDst(t, x, y, w, h) ==
    CASE t = "rotate90" -> <<h - 1 - y, x>>
      [] t = "rotate270" -> <<y, w - 1 - x>>
      [] t = "transpose" -> <<y, x>>
      [] t = "transverse" -> <<h - 1 - y, w - 1 - x>>
      [] OTHER -> <<x, y>>

\* The fast paths: in iteration (x, y), the source row (sy - b.Min.Y), the
\* pixel within the row (so = sOff + col*4) and the destination position.
FastSrcRow(t, x, y, w, h) ==
    IF t \in {"flipVertical", "rotate180"} THEN h - 1 - y ELSE y

FastSrcColPlain(t, x, y, w, h) == x

FastSrcCol(t, x, y, w, h) ==
    IF t \in {"flipHorizontal", "rotate180"} THEN w - 1 - x ELSE x

FastDstTransposed(t, x, y, w, h) ==
    CASE t = "rotate90" -> <<h - 1 - y, x>>
      [] t = "rotate270" -> <<y, x>>
      [] OTHER -> <<w - 1 - x, y>>

FastDst(t, x, y, w, h) ==
    CASE t = "rotate90" -> <<h - 1 - y, x>>
      [] t = "rotate270" -> <<y, w - 1 - x>>
      [] OTHER -> <<x, y>>

\* The first k iterations of a generic loop (y outer, x inner).
RECURSIVE GenericLoop(_, _, _)
GenericLoop(t, img, k) ==
    IF k = 0 THEN NewDst(t, img.w, img.h)
    ELSE LET dst == GenericLoop(t, img, k - 1)
             y == (k - 1) \div img.w
             x == (k - 1) % img.w
             s == GenericSrc(t, x, y, img.w, img.h)
             d == GenericDst(t, x, y, img.w, img.h)
         IN Set(dst, d[1], d[2], At(img, img.x0 + s[1], img.y0 + s[2]))

Generic(t, img) == GenericLoop(t, img, img.w * img.h)

\* The first k iterations of a fast path: the four bytes are copied from an
\* RGBA source and converted from an NRGBA source.
RECURSIVE FastLoop(_, _, _)
FastLoop(t, src, k) ==
    IF k = 0 THEN NewDst(t, src.w, src.h)
    ELSE LET dst == FastLoop(t, src, k - 1)
             y == (k - 1) \div src.w
             x == (k - 1) % src.w
             sOff == PixOffset(src, src.x0, src.y0 + FastSrcRow(t, x, y, src.w, src.h))
             so == sOff + FastSrcCol(t, x, y, src.w, src.h) * 4
             d == FastDst(t, x, y, src.w, src.h)
             do == PixOffset(dst, d[1], d[2])
         IN IF so < 0 \/ so + 4 > Len(src.pix) THEN [dst EXCEPT !.bad = TRUE]
            ELSE WritePix(dst, do, RGBAModelConvert(ColorAtOffset(src, so)))

Fast(t, src) == FastLoop(t, src, src.w * src.h)

\* flipHorizontal, flipVertical, rotate180, rotate90, rotate270, transpose,
\* transverse: the fast path for *image.RGBA and *image.NRGBA sources of the
\* first five, the generic loop otherwise.
Transform(t, img) ==
    IF t \in FastTransforms /\ img.kind \in {"RGBA", "NRGBA"}
    THEN Fast(t, img) ELSE Generic(t, img)

\* applyEXIFOrientation, given what exifOrientationJPEG returned.
applyEXIFOrientation(img, orientation, ok) ==
    IF ~ok \/ orientation = 1 THEN img
    ELSE CASE orientation = 2 -> Transform("flipHorizontal", img)
           [] orientation = 3 -> Transform("rotate180", img)
           [] orientation = 4 -> Transform("flipVertical", img)
           [] orientation = 5 -> Transform("transpose", img)
           [] orientation = 6 -> Transform("rotate90", img)
           [] orientation = 7 -> Transform("transverse", img)
           [] orientation = 8 -> Transform("rotate270", img)
           [] OTHER -> img

\* ------------------------------------------------------ the decoded images

Kinds == {"RGBA", "NRGBA", "Gray"}

\* The bytes of pixel number n of a kind.
PixelBytes(kind, n) ==
    IF kind = "Gray" THEN <<(10 + 20 * n) % 256>>
    ELSE IF kind = "NRGBA"
    THEN <<(3 + 83 * n) % 256, (255 - n) % 256, (40 * n) % 256, (1 + 85 * n) % 256>>
    ELSE <<(10 + n) % 256, (20 + 2 * n) % 256, (30 + 3 * n) % 256, (200 + 5 * n) % 256>>

\* A w x h image whose pixel (x, y) has number first + x + w*y.  With sub it
\* is a SubImage at (2, 1) of an image one pixel wider: every row of Pix
\* ends in a pixel outside the bounds.
SourceImage(kind, w, h, sub, first) ==
    LET rowPixels == IF sub THEN w + 1 ELSE w
        bpp == Bpp(kind)
    IN [kind |-> kind,
        x0 |-> IF sub THEN 2 ELSE 0,
        y0 |-> IF sub THEN 1 ELSE 0,
        w |-> w, h |-> h, stride |-> bpp * rowPixels,
        pix |-> [i \in 1 .. (bpp * rowPixels * h) |->
                    LET px == (i - 1) \div bpp
                        x == px % rowPixels
                        y == px \div rowPixels
                    IN IF x >= w THEN 77
                       ELSE PixelBytes(kind, first + x + w * y)[((i - 1) % bpp) + 1]],
        bad |-> FALSE]

RotIdle ==
    /\ rotPc = "idle"
    /\ rotImgs = <<>>
    /\ rotCodes = <<>>

RotInit ==
    /\ rotPc = "decoded"
    /\ \E kind \in Kinds, w \in 0 .. MaxSide, h \in 0 .. MaxSide, sub \in BOOLEAN,
          first \in 0 .. MaxFirstPixel :
        rotImgs = <<SourceImage(kind, w, h, sub, first)>>
    /\ rotCodes = <<>>

\* applyEXIFOrientation on the latest image, exifOrientationJPEG having
\* returned (orientation, true).  It is applied to the decoded image and,
\* for the round trips, once more to its result.
Orient(orientation) ==
    /\ rotPc \in {"decoded", "once"}
    /\ rotImgs' = Append(rotImgs, applyEXIFOrientation(rotImgs[Len(rotImgs)], orientation, TRUE))
    /\ rotCodes' = Append(rotCodes, orientation)
    /\ rotPc' = IF rotPc = "decoded" THEN "once" ELSE "twice"
    /\ UNCHANGED <<hashVars, hamVars, resizeVars, exifVars, dsVars>>

\* applyEXIFOrientation when no orientation was found.
OrientNotFound ==
    /\ rotPc \in {"decoded", "once"}
    /\ rotImgs' = Append(rotImgs, applyEXIFOrientation(rotImgs[Len(rotImgs)], 0, FALSE))
    /\ rotCodes' = Append(rotCodes, 0)
    /\ rotPc' = IF rotPc = "decoded" THEN "once" ELSE "twice"
    /\ UNCHANGED <<hashVars, hamVars, resizeVars, exifVars, dsVars>>

\* ---------------------------------------------------------- specifications

HashNext ==
    \/ PHashNil
    \/ PHashGrayscale
    \/ PHashResize
    \/ PHashGray32
    \/ PHashDct
    \/ PHashMedian
    \/ PHashBits

InitHash == HashInit /\ HamIdle /\ ResizeIdle /\ ExifIdle /\ RotIdle /\ DsIdle

SpecHash == InitHash /\ [][HashNext]_vars

InitHamming == HamInit /\ HashIdle /\ ResizeIdle /\ ExifIdle /\ RotIdle /\ DsIdle

HammingNext == HammingCall

SpecHamming == InitHamming /\ [][HammingNext]_vars

ResizeNext ==
    \/ ResizeNil
    \/ ResizeReturnSrc
    \/ ResizeUpscale
    \/ ResizeDownscale
    \/ ResizeHalve
    \/ ResizeFinal

InitResize == ResizeInit /\ HashIdle /\ HamIdle /\ ExifIdle /\ RotIdle /\ DsIdle

SpecResize == InitResize /\ [][ResizeNext]_vars

\* Resize runs to its return: the loop of lines 54-60 is sequential code
\* that is never suspended.
SpecResizeLive == SpecResize /\ WF_vars(ResizeNext)

InitExif == ExifInit /\ HashIdle /\ HamIdle /\ ResizeIdle /\ RotIdle /\ DsIdle

ExifNext ==
    \/ ExifRejectHeader
    \/ ExifStartScan
    \/ ExifScanEnd
    \/ ExifSkipByte
    \/ ExifStop
    \/ ExifStandalone
    \/ ExifNextSegment
    \/ ExifFound
    \/ ExifPanic

SpecExif == InitExif /\ [][ExifNext]_vars

\* exifOrientationJPEG runs to its return: the scan is sequential code that
\* is never suspended.
SpecExifLive == SpecExif /\ WF_vars(ExifNext)

InitRotate == RotInit /\ HashIdle /\ HamIdle /\ ResizeIdle /\ ExifIdle /\ DsIdle

RotateNext ==
    \/ Orient(1)
    \/ Orient(2)
    \/ Orient(3)
    \/ Orient(4)
    \/ Orient(5)
    \/ Orient(6)
    \/ Orient(7)
    \/ Orient(8)
    \/ OrientNotFound

SpecRotate == InitRotate /\ [][RotateNext]_vars

InitDownscale == DsInit /\ HashIdle /\ HamIdle /\ ResizeIdle /\ ExifIdle /\ RotIdle

DownscaleNext ==
    \/ DownscaleReturnSrc
    \/ DownscaleResize

SpecDownscale == InitDownscale /\ [][DownscaleNext]_vars

\* ------------------------------------------------------------------ claims

\* The cells the median is taken over, and the order statistic: m is the
\* element at (0-based) index k of the ascending sort of the cells' values.
Interior == {p \in Rows \X Rows : p[1] >= 1 /\ p[2] >= 1}

IsSortedIndex(c, cells, m, k) ==
    /\ \E p \in cells : c[p[1]][p[2]] = m
    /\ Cardinality({p \in cells : c[p[1]][p[2]] < m}) <= k
    /\ Cardinality({p \in cells : c[p[1]][p[2]] <= m}) > k

MedianInputs == -2 .. MaxMod

BitOf(h, row, col) == h[(HashBits - 1) - (CoeffSide * row + col)]

\* C1: the bit at row 0, column 0 (bit 63) of every hash PHash returns is 0,
\* also when coefficient [0][0] is greater than the median.
DcBitForcedZero == phPc = "done" => hash[HashBits - 1] = 0

BitsRowMajorMsbFirst ==
    phPc = "done" /\ ~phImg.nil =>
        /\ \A row \in Rows, col \in Rows :
            (row # 0 \/ col # 0) =>
                (BitOf(hash, row, col) = 1 <=> coeff[row][col] > med)
        /\ \A m \in MedianInputs :
            LET hm == hashFromCoeffsImageHash(coeff, m)
            IN \A row \in Rows, col \in Rows :
                (row # 0 \/ col # 0) =>
                    (BitOf(hm, row, col) = 1 <=> coeff[row][col] > m)

BitsWitness ==
    /\ phPc = "done"
    /\ \E row \in Rows, col \in Rows :
        (row # 0 \/ col # 0) /\ coeff[row][col] = med /\ BitOf(hash, row, col) = 0
    /\ \E row \in Rows, col \in Rows :
        (row # 0 \/ col # 0) /\ coeff[row][col] > med /\ BitOf(hash, row, col) = 1
    /\ BitOf(hash, 0, 1) # BitOf(hash, 1, 0)

\* C4: HammingDistance(a, b) is the number of bit positions where a and b
\* differ, so it is 0 for a = b, symmetric, and in 0..64.
HammingIsXorWeight ==
    hamPc = "done" =>
        /\ dist = Cardinality({i \in 0 .. (HashBits - 1) : ha[i] # hb[i]})
        /\ dist \in 0 .. HashBits
        /\ (ha = hb => dist = 0)
        /\ dist = HammingDistance(hb, ha)

HammingWitness ==
    /\ hamPc = "done"
    /\ ha # hb
    /\ dist > 1
    /\ \E i \in 0 .. (HashBits - 1) : ha[i] = 1 /\ hb[i] = 1

\* Exactly one target is 0 and the division of the aspect-ratio step is
\* defined.
OnlyWidthMissing == ~rsSrc.nil /\ rsDstW = 0 /\ rsDstH # 0 /\ rsSrc.h # 0

OnlyHeightMissing == ~rsSrc.nil /\ rsDstH = 0 /\ rsDstW # 0 /\ rsSrc.w # 0

RoundDiv(p, q) == (2 * p + q) \div (2 * q)

\* C10 as stated: the missing target is round(known * other / source_known),
\* and the source is returned when that is 0.
AspectRounded ==
    rsPc = "done" =>
        /\ OnlyWidthMissing =>
            /\ rsTw = RoundDiv(rsDstH * rsSrc.w, rsSrc.h)
            /\ (RoundDiv(rsDstH * rsSrc.w, rsSrc.h) = 0 => rsOut.kind = "src")
        /\ OnlyHeightMissing =>
            /\ rsTh = RoundDiv(rsDstW * rsSrc.h, rsSrc.w)
            /\ (RoundDiv(rsDstW * rsSrc.h, rsSrc.w) = 0 => rsOut.kind = "src")

\* C10 amended: the missing target is floor(known * other / source_known)
\* (the quotient truncated, not rounded), and the source is returned when
\* that is 0.
AspectTruncated ==
    rsPc = "done" =>
        /\ OnlyWidthMissing =>
            /\ rsTw = (rsDstH * rsSrc.w) \div rsSrc.h
            /\ rsTh = rsDstH
            /\ (rsTw = 0 => rsOut.kind = "src" /\ rsPasses = <<>>)
            /\ (rsTw # 0 => rsOut = [kind |-> "new", w |-> rsTw, h |-> rsTh])
        /\ OnlyHeightMissing =>
            /\ rsTh = (rsDstW * rsSrc.h) \div rsSrc.w
            /\ rsTw = rsDstW
            /\ (rsTh = 0 => rsOut.kind = "src" /\ rsPasses = <<>>)
            /\ (rsTh # 0 => rsOut = [kind |-> "new", w |-> rsTw, h |-> rsTh])

AspectWitness ==
    /\ rsPc = "done"
    /\ OnlyWidthMissing
    /\ 2 * ((rsDstH * rsSrc.w) % rsSrc.h) >= rsSrc.h
    /\ rsTw > 0
    /\ rsOut.kind = "new"

\* What exifOrientationJPEG may return.
ExifResultOk ==
    exPc = "done" =>
        /\ (exOk /\ exOrient \in 1 .. 8) \/ (~exOk /\ exOrient = 0)
        /\ (Len(data) < 2 \/ Slice(data, 0, 2) # SOI) => ~exOk

\* C5: for every byte sequence exifOrientationJPEG returns not-found or
\* (v, true) with v in 1..8, reads no byte outside the buffer (no panic), and
\* returns not-found when the first two bytes are not FF D8.
ExifNeverPanics == exPc # "panic" /\ ExifResultOk

\* C5 on a build whose int has 64 bits.
ExifNeverPanics64 == intBits = 64 => ExifNeverPanics

\* C6: a payload of SOI, well-formed segments and standalone markers, and a
\* complete Exif APP1 segment whose first orientation entry is a short of
\* count 1 and value v in 1..8 yields (v, true), in both byte orders.
ValidExifFound ==
    exIn.fam = "valid" =>
        /\ exPc # "panic"
        /\ exPc = "done" => exOk /\ exOrient = exIn.v

ValidExifWitness ==
    /\ exPc = "done"
    /\ exIn.fam = "valid"
    /\ exOk
    /\ exOrient = 8
    /\ exI > 12
    /\ \E k \in 1 .. (Len(data) - 1) : data[k] = 73 /\ data[k + 1] = 73

\* The pixel at offset (x, y) from the origin of an image's bounds.
Px(img, x, y) == At(img, img.x0 + x, img.y0 + y)

\* The same colour: equal c.RGBA() values.
SameColor(c1, c2) == Color16(c1) = Color16(c2)

\* What a claim says of an orientation code and a source position (x, y):
\* the destination position and the source position that hold the same pixel.
RemapPair(code, x, y, w, h) ==
    CASE code = 2 -> [d |-> <<x, y>>, s |-> <<w - 1 - x, y>>]
      [] code = 3 -> [d |-> <<x, y>>, s |-> <<w - 1 - x, h - 1 - y>>]
      [] code = 4 -> [d |-> <<x, y>>, s |-> <<x, h - 1 - y>>]
      [] code = 5 -> [d |-> <<y, x>>, s |-> <<x, y>>]
      [] code = 6 -> [d |-> <<h - 1 - y, x>>, s |-> <<x, y>>]
      [] code = 7 -> [d |-> <<h - 1 - y, w - 1 - x>>, s |-> <<x, y>>]
      [] code = 8 -> [d |-> <<y, w - 1 - x>>, s |-> <<x, y>>]

RemapSize(code, w, h) == IF code \in 5 .. 8 THEN <<h, w>> ELSE <<w, h>>

\* Step i of the behaviour remaps the pixels as the claim says, the pixels
\* compared by Same.
RemapHolds(i, Same(_, _)) ==
    LET s == rotImgs[i]
        d == rotImgs[i + 1]
        code == rotCodes[i]
    IN IF code \in {0, 1} THEN d = s
       ELSE /\ <<d.w, d.h>> = RemapSize(code, s.w, s.h)
            /\ ~d.bad
            /\ \A x \in 0 .. (s.w - 1), y \in 0 .. (s.h - 1) :
                LET p == RemapPair(code, x, y, s.w, s.h)
                IN Same(Px(d, p.d[1], p.d[2]), Px(s, p.s[1], p.s[2]))

StoredAsRGBA(dc, sc) == dc = RGBAModelConvert(sc)

\* C7 as stated: code 1 returns the input; codes 2..8 give a destination whose
\* pixels are the source's pixels at the remapped positions, w x h for codes
\* 2, 3, 4 and h x w for codes 5..8.
RemapExact == \A i \in 1 .. Len(rotCodes) : RemapHolds(i, SameColor)

\* C7 amended: the same, the destination pixel being the source pixel
\* converted to 8-bit alpha-premultiplied RGBA (color.RGBAModel), which is the
\* source pixel itself for an RGBA source.
RemapAsRGBA ==
    \A i \in 1 .. Len(rotCodes) :
        /\ RemapHolds(i, StoredAsRGBA)
        /\ rotImgs[i].kind = "RGBA" => RemapHolds(i, SameColor)

RemapWitness ==
    /\ Len(rotCodes) = 1
    /\ rotCodes[1] = 7
    /\ rotImgs[1].kind = "NRGBA"
    /\ rotImgs[1].w = 3 /\ rotImgs[1].h = 2
    /\ rotImgs[1].x0 = 2
    /\ rotImgs[2].w = 2 /\ rotImgs[2].h = 3
    /\ Px(rotImgs[2], 0, 0) # Px(rotImgs[2], 1, 2)

RoundTrips == {<<3, 3>>, <<6, 8>>}

\* The latest image has the first one's size and, at every position, its
\* pixel, compared by Same.
BackToFirst(Same(_, _)) ==
    LET o == rotImgs[1]
        r == rotImgs[Len(rotImgs)]
    IN /\ r.w = o.w /\ r.h = o.h
       /\ ~r.bad
       /\ \A x \in 0 .. (o.w - 1), y \in 0 .. (o.h - 1) :
            Same(Px(r, x, y), Px(o, x, y))

\* C8 as stated: code 3 applied twice, and code 6 followed by code 8, give an
\* image of the original size with the original's pixel at every position.
RoundTripExact == rotCodes \in RoundTrips => BackToFirst(SameColor)

\* C8 amended: they give an image of the original size whose pixel at every
\* position is the original's pixel converted to 8-bit alpha-premultiplied
\* RGBA; for an RGBA original that is the original pixel.
RoundTripAsRGBA ==
    rotCodes \in RoundTrips =>
        /\ BackToFirst(StoredAsRGBA)
        /\ rotImgs[1].kind = "RGBA" => BackToFirst(SameColor)

RoundTripWitness ==
    /\ rotCodes = <<6, 8>>
    /\ rotImgs[1].kind = "RGBA"
    /\ rotImgs[1].w = 3 /\ rotImgs[1].h = 2
    /\ rotImgs[1].x0 = 2
    /\ rotImgs[2].w = 2 /\ rotImgs[2].h = 3
    /\ Px(rotImgs[3], 2, 1) = Px(rotImgs[1], 2, 1)
    /\ Px(rotImgs[3], 2, 1) # Px(rotImgs[3], 0, 0)

\* C9: for flipHorizontal, flipVertical, rotate180, rotate90 and rotate270
\* and every RGBA or NRGBA image, the fast path writes the same destination
\* as the generic At/Set loop.
FastEqualsGeneric ==
    \A i \in 1 .. Len(rotImgs) :
        rotImgs[i].kind \in {"RGBA", "NRGBA"} =>
            \A t \in FastTransforms :
                /\ Fast(t, rotImgs[i]) = Generic(t, rotImgs[i])
                /\ ~Fast(t, rotImgs[i]).bad

FastWitness ==
    /\ rotCodes = <<6>>
    /\ rotImgs[1].kind = "NRGBA"
    /\ rotImgs[1].w = 3 /\ rotImgs[1].h = 2
    /\ rotImgs[1].x0 = 2
    /\ rotImgs[2] = Generic("rotate90", rotImgs[1])
    /\ rotImgs[2] # NewDst("rotate90", 3, 2)
    /\ \E x \in 0 .. 2, y \in 0 .. 1 : ~SameColor(Px(rotImgs[2], 1 - y, x), Px(rotImgs[1], x, y))

\* Both targets are nonzero and the source is an image.
BothTargets == ~rsSrc.nil /\ rsDstW # 0 /\ rsDstH # 0

\* C11: for a non-nil source and nonzero targets Resize returns an image of
\* exactly dstW x dstH, the source itself when the targets are its size; the
\* image PHash hands to gray32x32, Resize(gray, 32, 32), is 32 x 32.
ResizeExactSize ==
    (rsPc = "done" /\ BothTargets) =>
        /\ rsOut.w = rsDstW
        /\ rsOut.h = rsDstH
        /\ rsOut.kind \in {"src", "new"}
        /\ (rsDstW = rsSrc.w /\ rsDstH = rsSrc.h) <=> rsOut.kind = "src"
        /\ LET r == Resize(Grayscale(rsSrc), rsDstW, rsDstH)
           IN ~r.nil /\ r.w = rsOut.w /\ r.h = rsOut.h

ResizeExactWitness ==
    /\ rsPc = "done"
    /\ BothTargets
    /\ rsDstW = GraySide
    /\ rsDstH = GraySide
    /\ rsSrc.w > GraySide
    /\ rsSrc.h < GraySide
    /\ rsOut = [kind |-> "new", w |-> GraySide, h |-> GraySide]

\* The image is to be made smaller: lines 71-87 have not returned.
MustShrink ==
    ~dsSrc.nil /\ dsMax > 0 /\ dsSrc.w > 0 /\ dsSrc.h > 0 /\ Largest(dsSrc) > dsMax

\* round(orig * maxSide / largest), at least 1.
RoundedSide(orig) ==
    LET n == RoundScaledExact(orig, dsMax, Largest(dsSrc))
    IN IF n = 0 THEN 1 ELSE n

\* orig * maxSide / largest lies exactly halfway between two integers.
IsHalfway(orig) ==
    /\ (2 * orig * dsMax) % Largest(dsSrc) = 0
    /\ ((2 * orig * dsMax) \div Largest(dsSrc)) % 2 = 1

\* C12 as stated, for sources with nonzero sides: a source with
\* max(w, h) <= maxSide is returned unchanged; otherwise the result is
\* Resize's, of size max(1, round(w * maxSide / max(w, h))) by
\* max(1, round(h * maxSide / max(w, h))), sides >= 1 and largest <= maxSide.
DownscaleRounded ==
    (dsPc = "done" /\ ~dsSrc.nil /\ dsMax > 0 /\ dsSrc.w > 0 /\ dsSrc.h > 0) =>
        IF Largest(dsSrc) <= dsMax
        THEN dsOut = [kind |-> "src", w |-> dsSrc.w, h |-> dsSrc.h]
        ELSE /\ dsNewW = RoundedSide(dsSrc.w)
             /\ dsNewH = RoundedSide(dsSrc.h)
             /\ dsOut = [kind |-> "new", w |-> dsNewW, h |-> dsNewH]
             /\ dsOut.w >= 1 /\ dsOut.h >= 1
             /\ Largest(dsOut) <= dsMax

\* C12 amended: a source with a zero side or with max(w, h) <= maxSide is
\* returned unchanged; otherwise the result is Resize's, each new side being
\* max(1, round(side * maxSide / max(w, h))) unless side * maxSide / max(w, h)
\* is exactly halfway between two integers, where it is one of the two; the
\* sides are >= 1, the largest is maxSide.
DownscaleNearest ==
    (dsPc = "done" /\ ~dsSrc.nil /\ dsMax > 0) =>
        IF ~MustShrink
        THEN dsOut = [kind |-> "src", w |-> dsSrc.w, h |-> dsSrc.h]
        ELSE /\ IF IsHalfway(dsSrc.w)
                THEN dsNewW \in {RoundedSide(dsSrc.w), RoundedSide(dsSrc.w) - 1}
                ELSE dsNewW = RoundedSide(dsSrc.w)
             /\ IF IsHalfway(dsSrc.h)
                THEN dsNewH \in {RoundedSide(dsSrc.h), RoundedSide(dsSrc.h) - 1}
                ELSE dsNewH = RoundedSide(dsSrc.h)
             /\ dsOut = [kind |-> "new", w |-> dsNewW, h |-> dsNewH]
             /\ dsOut.w >= 1 /\ dsOut.h >= 1
             /\ Largest(dsOut) = dsMax

DownscaleWitness ==
    /\ dsPc = "done"
    /\ MustShrink
    /\ IsHalfway(dsSrc.w)
    /\ dsNewW = RoundedSide(dsSrc.w) - 1
    /\ dsNewW > 1
    /\ dsOut = [kind |-> "new", w |-> dsNewW, h |-> dsMax]

\* The places of phStages where a stage ran.
StagePlaces(name) == {i \in 1 .. Len(phStages) : phStages[i].stage = name}

\* C13: in every PHash computation on a non-nil image the resize to 32 x 32
\* runs before the grayscale conversion, grayscale is applied to the resized
\* (32 x 32) image, and the transform and the bit extraction follow.
ResizeBeforeGrayscale ==
    /\ \A g \in StagePlaces("Grayscale") :
          /\ \E r \in StagePlaces("Resize") : r < g
          /\ phStages[g].w = GraySide /\ phStages[g].h = GraySide
    /\ \A d \in StagePlaces("dctTopLeft8x8") :
          \E g \in StagePlaces("Grayscale") : g < d
    /\ \A b \in StagePlaces("hashFromCoeffsImageHash") :
          \E d \in StagePlaces("dctTopLeft8x8") : d < b

\* C14: PHash of a nil image returns 0 and runs no stage of the pipeline.
NilHashIsZero ==
    phImg.nil =>
        /\ phPc \in {"call", "done"}
        /\ phStages = <<>>
        /\ coeff = ZeroCoeff /\ med = 0
        /\ hash = Zero64
        /\ phPc = "done" => \A i \in 0 .. (HashBits - 1) : hash[i] = 0

NilHashWitness ==
    /\ phImg.nil
    /\ phPc = "done"
    /\ phStages = <<>>
    /\ hash = Zero64

\* Both halved dimensions are at least the target.
BothHalvesFit == rsCw \div 2 >= rsTw /\ rsCh \div 2 >= rsTh

\* The i-th halving of the source's size.
RECURSIVE HalvedTimes(_, _)
HalvedTimes(n, i) == IF i = 0 THEN n ELSE HalvedTimes(n \div 2, i - 1)

\* In the loop and after it: the passes so far are halvings of the source
\* size, each at least the target in both dimensions, and the current size
\* is the last of them.
HalvingSafe ==
    /\ rsPc = "loop" =>
          /\ ~(rsTw >= rsSrc.w /\ rsTh >= rsSrc.h)
          /\ rsTw # 0 /\ rsTh # 0
          /\ rsCw = HalvedTimes(rsSrc.w, Len(rsPasses))
          /\ rsCh = HalvedTimes(rsSrc.h, Len(rsPasses))
          /\ \A i \in 1 .. Len(rsPasses) :
                /\ rsPasses[i] = [filter |-> "CatmullRom",
                                   w |-> HalvedTimes(rsSrc.w, i),
                                   h |-> HalvedTimes(rsSrc.h, i)]
                /\ rsPasses[i].w >= rsTw /\ rsPasses[i].h >= rsTh
    /\ (rsPc = "done" /\ rsCw + rsCh > 0) =>
          /\ ~BothHalvesFit
          /\ Len(rsPasses) >= 1
          /\ rsPasses[Len(rsPasses)] = [filter |-> "CatmullRom", w |-> rsTw, h |-> rsTh]
          /\ rsOut = [kind |-> "new", w |-> rsTw, h |-> rsTh]
          /\ \A i \in 1 .. (Len(rsPasses) - 1) :
                /\ rsPasses[i].w = HalvedTimes(rsSrc.w, i)
                /\ rsPasses[i].h = HalvedTimes(rsSrc.h, i)
                /\ rsPasses[i].w >= rsTw /\ rsPasses[i].h >= rsTh

\* A step taken in the loop halves both dimensions when both halves fit and
\* is the final pass to the target otherwise.
HalvingStep ==
    rsPc = "loop" =>
        IF BothHalvesFit
        THEN /\ rsPc' = "loop"
             /\ rsCw' = rsCw \div 2 /\ rsCh' = rsCh \div 2
             /\ Len(rsPasses') = Len(rsPasses) + 1
        ELSE /\ rsPc' = "done"
             /\ rsCw' = rsCw /\ rsCh' = rsCh
             /\ rsPasses' = Append(rsPasses, [filter |-> "CatmullRom", w |-> rsTw, h |-> rsTh])

\* C15: on the downscale path the loop halves (cw, ch) exactly while both
\* halves are at least the target, every size it produces is at least the
\* target in both dimensions, it terminates, and exactly one final pass to
\* the exact target follows it.
HalvingLoop ==
    /\ []HalvingSafe
    /\ [][HalvingStep]_vars
    /\ (rsPc = "loop") ~> (rsPc = "done")

HalvingWitness ==
    /\ rsPc = "done"
    /\ BothTargets
    /\ rsSrc.w # rsSrc.h
    /\ rsTw # rsTh
    /\ Len(rsPasses) = 3
    /\ rsCw \div 2 >= rsTw
    /\ rsCh \div 2 < rsTh

\* C16: the scan stops at the first SOS or EOI marker it reaches: a payload
\* whose valid Exif APP1 segment comes only after such a marker yields
\* not-found, and the scan index never passes the marker, so that no byte
\* after it is read.
StopsAtMarker ==
    exIn.fam = "afterstop" =>
        /\ exPc # "panic"
        /\ exI <= exIn.stop
        /\ exPc = "done" =>
              /\ ~exOk /\ exOrient = 0
              /\ exI = exIn.stop
              /\ ByteAt(data, exI - 2) = 255
              /\ ByteAt(data, exI - 1) \in {217, 218}

StopsWitness ==
    /\ exPc = "done"
    /\ exIn.fam = "afterstop"
    /\ exIn.stop = 8
    /\ exI = 8
    /\ ByteAt(data, exI - 1) = 218
    /\ ByteAt(data, exI) = 0 /\ ByteAt(data, exI + 1) = 2
    /\ ByteAt(data, exI + 3) = 225
    /\ ~exOk

\* The declared length of the segment whose marker is at index i.
DeclaredLen(i) == ByteAt(data, i + 2) * 256 + ByteAt(data, i + 3)

\* A marker without a length field.
IsStandalone(marker) == marker = 1 \/ marker \in 208 .. 215

\* The scan index stays inside the payload, and a call of
\* parseExifOrientation enters the body of its entry loop at most 256 times.
ScanBounded ==
    /\ exPc \in {"scan", "done", "panic"} => exI <= Len(data)
    /\ (exPc = "scan" /\ exI + 4 <= Len(data)) =>
          ScanStep(data, exI, intBits).res.iters <= 256

\* An iteration that stays in the scan moves the index up: by 1 over a byte
\* that is not 0xFF, by 2 over a standalone marker, and to the end of a
\* segment, at least 2 bytes past its length field, otherwise; a declared
\* length below 2 ends the scan.
ScanProgress ==
    exPc = "scan" =>
        /\ exPc' = "scan" =>
              /\ exI' > exI
              /\ IF ByteAt(data, exI) # 255 THEN exI' = exI + 1
                 ELSE IF IsStandalone(ByteAt(data, exI + 1)) THEN exI' = exI + 2
                 ELSE /\ DeclaredLen(exI) >= 2
                      /\ exI' = exI + 2 + DeclaredLen(exI)
                      /\ exI' >= exI + 2 + 2
        /\ (/\ exI + 4 <= Len(data)
            /\ ByteAt(data, exI) = 255
            /\ ~IsStandalone(ByteAt(data, exI + 1))
            /\ DeclaredLen(exI) < 2) =>
              exPc' = "done" /\ ~exOk'

\* C17: the marker scan terminates on every payload: the scan index rises
\* on every iteration (by 1, by 2, or to a segment end at least 2 bytes past
\* the length field), a declared length below 2 ends the scan, and the IFD
\* entry loop runs at most 256 times.
ScanTerminates ==
    /\ []ScanBounded
    /\ [][ScanProgress]_vars
    /\ <>(exPc \in {"done", "panic"})

ScanWitness ==
    /\ exPc = "scan"
    /\ exIn.fam = "many"
    /\ exI = 6
    /\ exI + 4 <= Len(data)
    /\ ScanStep(data, exI, intBits).kind = "found"
    /\ ScanStep(data, exI, intBits).res.iters = 256

====
